---------------------------- MODULE Spec2Model ----------------------------
(***************************************************************************)
(* Model of the CIRSE Library agent (cirse_streamlit_v3): cirse_agent.py   *)
(* (login, search, download, transcription, summarisation) and the two     *)
(* coroutines of cirse_app.py that drive it, do_search and do_process.     *)
(*                                                                         *)
(* Text is a sequence of one-character strings, so that re.sub, slicing    *)
(* and Path.with_suffix are computed character by character.  Python's     *)
(* None is the string "None" where the other values are strings.           *)
(***************************************************************************)
EXTENDS Integers, Sequences, FiniteSets, TLC

(***************************************************************************)
(* Bounds of the model.                                                    *)
(***************************************************************************)
MaxTitleLen == 3    \* length of the enumerated short titles
MaxRuns == 2        \* how often one title is processed under SpecSlug
MaxCards == 2       \* .search-result elements on the catalog page
MaxTop == 2         \* the max_results values tried (slider: 1..50)
MaxResults == 2     \* length of the result list handed to do_process

(***************************************************************************)
(* Program constants.                                                      *)
(***************************************************************************)
SlugMax == 50       \* [:50] of the slug
LabelMax == 60      \* title[:60] of the progress label

Min(a, b) == IF a <= b THEN a ELSE b

\* s[:n] of Python, n >= 0
Take(s, n) == SubSeq(s, 1, Min(n, Len(s)))

\* the character class [A-Za-z0-9] of the regular expression
AlnumChars ==
    {"A","B","C","D","E","F","G","H","I","J","K","L","M",
     "N","O","P","Q","R","S","T","U","V","W","X","Y","Z",
     "a","b","c","d","e","f","g","h","i","j","k","l","m",
     "n","o","p","q","r","s","t","u","v","w","x","y","z",
     "0","1","2","3","4","5","6","7","8","9"}

RECURSIVE ReSubFrom(_, _)
\* the replacement of s[i..]: a character of the class is copied, a maximal
\* run of other characters is replaced by one "_"
ReSubFrom(s, i) ==
    IF i > Len(s) THEN <<>>
    ELSE IF s[i] \in AlnumChars THEN <<s[i]>> \o ReSubFrom(s, i + 1)
    ELSE IF i > 1 /\ s[i - 1] \notin AlnumChars THEN ReSubFrom(s, i + 1)
    ELSE <<"_">> \o ReSubFrom(s, i + 1)

RECURSIVE ReSubEachFrom(_, _)
\* faulty variant: the pattern without its "+", every other character
\* becomes "_" on its own
ReSubEachFrom(s, i) ==
    IF i > Len(s) THEN <<>>
    ELSE IF s[i] \in AlnumChars THEN <<s[i]>> \o ReSubEachFrom(s, i + 1)
    ELSE <<"_">> \o ReSubEachFrom(s, i + 1)

\* faulty variant of re_sub
re_sub_each(s) == ReSubEachFrom(s, 1)

\* re.sub(r'[^A-Za-z0-9]+', '_', s)
re_sub(s) == ReSubFrom(s, 1)

\* faulty variant of safe_name: the slug without its [:50]
safe_name_untruncated(title) == re_sub(title)

\* re.sub(r'[^A-Za-z0-9]+', '_', video.title)[:50]
safe_name(title) == Take(re_sub(title), SlugMax)

Mp3Suffix == <<".", "m", "p", "3">>
MdSuffix == <<".", "m", "d">>
NotesSuffix == <<".", "n", "o", "t", "e", "s", ".", "m", "d">>

\* the index of the dot that starts PurePath.suffix of the file name, 0 when
\* the name has no suffix (no dot, a dot only in front, or a dot at the end)
SuffixDot(name) ==
    LET dots == {i \in 1..Len(name) : name[i] = "."}
        last == IF dots = {} THEN 0 ELSE CHOOSE i \in dots : \A j \in dots : j <= i
    IN  IF last > 1 /\ last < Len(name) THEN last ELSE 0

\* Path.with_suffix: the name with its last suffix replaced by suffix
with_suffix(name, suffix) ==
    IF SuffixDot(name) = 0 THEN name \o suffix
    ELSE SubSeq(name, 1, SuffixDot(name) - 1) \o suffix

\* the three file names of process_video, inside out_dir
audio_path(title) == safe_name(title) \o Mp3Suffix
transcript_path(title) == with_suffix(audio_path(title), MdSuffix)
notes_path(title) == with_suffix(audio_path(title), NotesSuffix)

Paths(title) ==
    [audio |-> audio_path(title),
     transcript |-> transcript_path(title),
     notes |-> notes_path(title)]


\* no path derived yet
NoPaths == [audio |-> <<>>, transcript |-> <<>>, notes |-> <<>>]

(***************************************************************************)
(* Input domains.                                                          *)
(***************************************************************************)
CaseReviewTitle ==
    <<"C","a","s","e"," ","R","e","v","i","e","w",":"," ","T","I","P","S","!","!">>

\* an alphanumeric character, a character outside the class, and the
\* separator itself (which is outside the class too)
ShortChars == {"a", "!", "_"}
ShortTitles == UNION {[1..k -> ShortChars] : k \in 1..MaxTitleLen}

\* titles around the [:50] cut: SlugMax - 2 alphanumerics, then a short title
LongPrefix == [i \in 1..(SlugMax - 2) |-> "a"]
LongTitles == {LongPrefix \o t : t \in ShortTitles}

Titles == ShortTitles \cup LongTitles \cup {CaseReviewTitle}

\* what os.getenv gives at import: None (unset), an empty or a non-empty string
CredValues == {"None", "", "secret"}

VARIABLES
    mode,            \* the operation that was entered
    pc,              \* the position inside it
    exception,       \* the exception that left the operation, "None" if none
    traceback,       \* the position that raised it, "None" if none
    OPENAI_API_KEY,  \* cirse_agent module globals, read once at import
    CIRSE_EMAIL,
    CIRSE_PASSWORD,
    top_n,           \* do_search: max_results
    catalog,         \* do_search: the .search-result cards of the page
    hits,            \* do_search: the list it returns (cirse_app.py:84)
    results,         \* do_process: the VideoResult list
    picks,           \* do_process: the ticked indices (0-based), ascending
    n,               \* do_process: the loop counter of enumerate(picks, 1)
    progressLog,     \* the calls of progress.progress, in order
    files,           \* the files of out_dir: name -> content
    writeLog,        \* the files written, in the order of the writes
    netLog,          \* the network calls made, in order
    loggedIn,        \* the network contexts on which playwright_login completed
    slugTitle,       \* SpecSlug: the title being processed
    slugPaths,       \* SpecSlug: the paths derived in this run, NoPaths before
    slugPrev,        \* SpecSlug: the paths derived in the previous run
    slugRun,         \* SpecSlug: the number of the run
    environ,         \* SpecGui: os.environ, the three variables
    gui,             \* SpecGui: the values of the text inputs
    ticks,           \* SpecGui: the indices whose checkbox is ticked
    shown,           \* SpecGui: what the last script run put on the page
    trigger,         \* SpecGui: what caused the script run, "None" outside
    clicks           \* SpecGui: the number of user interactions so far

vars == <<mode, pc, exception, traceback, OPENAI_API_KEY, CIRSE_EMAIL,
          CIRSE_PASSWORD, top_n, catalog, hits, results, picks, n, progressLog,
          files, writeLog, netLog, loggedIn, slugTitle, slugPaths, slugPrev, slugRun,
          environ, gui, ticks, shown, trigger, clicks>>

agentVars == <<OPENAI_API_KEY, CIRSE_EMAIL, CIRSE_PASSWORD>>
searchVars == <<top_n, catalog, hits>>
batchVars == <<results, picks, n, progressLog, files, writeLog>>
slugVars == <<slugTitle, slugPaths, slugPrev, slugRun>>
guiVars == <<environ, gui, ticks, shown, trigger, clicks>>

\* nothing of the result block is on the page
NothingShown == [boxes |-> 0, process |-> FALSE, note |-> ""]

\* outside SpecGui there is no page
NoGui ==
    /\ environ = [email |-> "None", password |-> "None", key |-> "None"]
    /\ gui = [email |-> "", password |-> "", key |-> "", query |-> ""]
    /\ ticks = {}
    /\ shown = NothingShown
    /\ trigger = "None"
    /\ clicks = 0

(***************************************************************************)
(* SpecSlug: the path derivation of process_video applied to one title,    *)
(* MaxRuns times over.                                                     *)
(***************************************************************************)
InitSlug ==
    /\ mode = "slug"
    /\ pc = "pv_enter"
    /\ exception = "None"
    /\ traceback = "None"
    /\ OPENAI_API_KEY = "secret"
    /\ CIRSE_EMAIL = "secret"
    /\ CIRSE_PASSWORD = "secret"
    /\ top_n = 1
    /\ catalog = <<>>
    /\ hits = <<>>
    /\ results = <<>>
    /\ picks = <<>>
    /\ n = 1
    /\ progressLog = <<>>
    /\ files = {}
    /\ writeLog = <<>>
    /\ netLog = <<>>
    /\ loggedIn = {}
    /\ slugTitle \in Titles
    /\ slugPaths = NoPaths
    /\ slugPrev = NoPaths
    /\ slugRun = 1
    /\ NoGui

\* process_video, lines 99-101: the three paths of the title
DerivePaths ==
    /\ mode = "slug"
    /\ pc = "pv_enter"
    /\ slugPaths' = Paths(slugTitle)
    /\ pc' = "pv_paths"
    /\ UNCHANGED <<mode, exception, traceback, agentVars, searchVars, batchVars, netLog,
                   loggedIn, slugTitle, slugPrev, slugRun, guiVars>>

\* the same title is processed again (a later job, or a later run)
Reprocess ==
    /\ mode = "slug"
    /\ pc = "pv_paths"
    /\ slugRun < MaxRuns
    /\ slugPrev' = slugPaths
    /\ slugPaths' = NoPaths
    /\ slugRun' = slugRun + 1
    /\ pc' = "pv_enter"
    /\ UNCHANGED <<mode, exception, traceback, agentVars, searchVars, batchVars, netLog,
                   loggedIn, slugTitle, guiVars>>

NextSlug == DerivePaths \/ Reprocess

SpecSlug == InitSlug /\ [][NextSlug]_vars


(***************************************************************************)
(* Spec: the two coroutines of cirse_app.py, each entered with its inputs. *)
(* do_search runs playwright_login and search_videos on one page;          *)
(* do_process runs process_video for every pick.                           *)
(*                                                                         *)
(* The module globals of cirse_agent are whatever os.getenv gave when the  *)
(* module was imported.  The "fill in every box" test of the Search        *)
(* handler (cirse_app.py:65) looks at the text inputs of the page, not at  *)
(* these globals, so each of them may be None or empty in either           *)
(* coroutine.  Since search_videos never returns (see SearchSlice),        *)
(* do_process is entered here with a result list and picks of its own.     *)
(***************************************************************************)
TipsBang == <<"T", "I", "P", "S", "!">>
TipsQuery == <<"T", "I", "P", "S", "?">>
CatalogTitles == {CaseReviewTitle, TipsBang, TipsQuery}
Speakers == {"None", "Dr"}

\* VideoResult lists; url is the position of the entry in the catalog
ResultLists ==
    UNION {{[i \in 1..k |-> [title |-> ts[i], url |-> i, year |-> "None",
                             speaker |-> ss[i]]] :
                ts \in [1..k -> CatalogTitles], ss \in [1..k -> Speakers]} :
           k \in 1..MaxResults}

\* the elements of a set of numbers in ascending order
Ascending(S) ==
    CHOOSE f \in [1..Cardinality(S) -> S] :
        \A i, j \in 1..Cardinality(S) : i < j => f[i] < f[j]

\* picks: the ticked indices of enumerate(results), in order; not empty
\* (cirse_app.py:96 "if picks and ...")
PickLists(k) == {Ascending(S) : S \in (SUBSET (0..(k - 1))) \ {{}}}

\* a card of the catalog page: which optional elements it has
Cards == [hasYear : BOOLEAN, hasSpeaker : BOOLEAN]
Catalogs == UNION {[1..k -> Cards] : k \in 0..MaxCards}

Init ==
    /\ mode \in {"do_search", "do_process"}
    /\ exception = "None"
    /\ traceback = "None"
    /\ OPENAI_API_KEY \in CredValues
    /\ CIRSE_EMAIL \in CredValues
    /\ CIRSE_PASSWORD \in CredValues
    /\ IF mode = "do_search"
       THEN /\ pc = "login_goto"
            /\ top_n \in 1..MaxTop
            /\ catalog \in Catalogs
            /\ results = <<>>
            /\ picks = <<>>
       ELSE /\ pc = "loop"
            /\ top_n = 1
            /\ catalog = <<>>
            /\ results \in ResultLists
            /\ picks \in PickLists(Len(results))
    /\ hits = <<>>
    /\ n = 1
    /\ progressLog = <<>>
    /\ files = {}
    /\ writeLog = <<>>
    /\ netLog = <<>>
    /\ loggedIn = {}
    /\ slugTitle = <<>>
    /\ slugPaths = NoPaths
    /\ slugPrev = NoPaths
    /\ slugRun = 1
    /\ NoGui

\* a network call on context ctx, with whether playwright_login had
\* completed on that context when the call was made
NetCall(op, ctx) == [op |-> op, ctx |-> ctx, authed |-> ctx \in loggedIn]

\* an exception leaves the coroutine: neither do_search, do_process nor
\* their callers catch anything, asyncio.run re-raises it
Raise(e) ==
    /\ exception' = e
    /\ traceback' = pc
    /\ pc' = "raised"

NoRaise == UNCHANGED <<exception, traceback>>


(***************************************************************************)
(* do_search (cirse_app.py:75-82): playwright_login(page), then            *)
(* search_videos(page, query, max_results=top_n).                          *)
(***************************************************************************)

\* playwright_login, line 59: page.goto(login_url); nothing is looked at
\* before it.  The navigation succeeds or fails.
LoginGoto ==
    /\ mode = "do_search"
    /\ pc = "login_goto"
    /\ netLog' = Append(netLog, NetCall("goto_login", "page"))
    /\ \E ok \in BOOLEAN :
          IF ok THEN pc' = "login_fill" /\ NoRaise
          ELSE Raise("PlaywrightError")
    /\ UNCHANGED <<mode, agentVars, searchVars, batchVars, loggedIn, slugVars, guiVars>>

\* playwright_login, lines 60-63: fill in CIRSE_EMAIL and CIRSE_PASSWORD,
\* click submit, wait for networkidle.  page.fill rejects None; an empty
\* string is typed like any other.  Reaching networkidle is all that login
\* waits for: the login has then completed on the page.
LoginSubmit ==
    /\ mode = "do_search"
    /\ pc = "login_fill"
    /\ IF CIRSE_EMAIL = "None" \/ CIRSE_PASSWORD = "None"
       THEN /\ Raise("PlaywrightError")
            /\ UNCHANGED <<netLog, loggedIn>>
       ELSE /\ netLog' = Append(netLog, NetCall("submit_login", "page"))
            /\ \E ok \in BOOLEAN :
                  IF ok
                  THEN /\ loggedIn' = loggedIn \cup {"page"}
                       /\ pc' = "search_goto"
                       /\ NoRaise
                  ELSE /\ Raise("TimeoutError")
                       /\ UNCHANGED loggedIn
    /\ UNCHANGED <<mode, agentVars, searchVars, batchVars, slugVars, guiVars>>

\* search_videos, lines 67-68: page.goto(search_url)
SearchGoto ==
    /\ mode = "do_search"
    /\ pc = "search_goto"
    /\ netLog' = Append(netLog, NetCall("goto_search", "page"))
    /\ \E ok \in BOOLEAN :
          IF ok THEN pc' = "search_wait" /\ NoRaise
          ELSE Raise("PlaywrightError")
    /\ UNCHANGED <<mode, agentVars, searchVars, batchVars, loggedIn, slugVars, guiVars>>

\* search_videos, line 69: wait_for_selector('.search-result') returns once a
\* card is on the page and raises TimeoutError when none appears in time; a
\* page without cards never shows one
SearchWait ==
    /\ mode = "do_search"
    /\ pc = "search_wait"
    /\ \E rendered \in (IF Len(catalog) = 0 THEN {FALSE} ELSE BOOLEAN) :
          IF rendered THEN pc' = "search_slice" /\ NoRaise
          ELSE Raise("TimeoutError")
    /\ UNCHANGED <<mode, agentVars, searchVars, batchVars, netLog, loggedIn,
                   slugVars, guiVars>>

\* search_videos, line 70: await page.query_selector_all(...)[:max_results]
\* is await (page.query_selector_all(...)[:max_results]): the slice is taken
\* of the coroutine object, not of the awaited list, and a coroutine is not
\* subscriptable.  Lines 71-84 are never reached.
SearchSlice ==
    /\ mode = "do_search"
    /\ pc = "search_slice"
    /\ Raise("TypeError")
    /\ UNCHANGED <<mode, agentVars, searchVars, batchVars, netLog, loggedIn,
                   slugVars, guiVars>>

(***************************************************************************)
(* do_process (cirse_app.py:100-107) and process_video                     *)
(* (cirse_agent.py:97-138), which it awaits for every pick.                *)
(***************************************************************************)
total == Len(picks)

\* results[idx] of the current iteration (idx is 0-based)
Video == results[picks[n] + 1]

\* a file of out_dir
File(path, kind, video) ==
    [path |-> path, kind |-> kind, url |-> video.url, title |-> video.title,
     speaker |-> video.speaker]

\* write_text / the download's output: the file at path is replaced
WriteFile(f) == {g \in files : g.path # f.path} \cup {f}

Write(f) ==
    /\ files' = WriteFile(f)
    /\ writeLog' = Append(writeLog, f)

NoWrite == UNCHANGED <<files, writeLog>>

\* lines 103-105, 107: the head of "for n, idx in enumerate(picks, 1)".
\* Before each job the fraction (n - 1) / total is shown with the job's
\* title[:60]; after the last job 1.0 is shown and do_process returns.
Loop ==
    /\ mode = "do_process"
    /\ pc = "loop"
    /\ IF n <= total
       THEN /\ progressLog' = Append(progressLog,
                [num |-> n - 1, den |-> total, text |-> "Processing",
                 item |-> Take(Video.title, LabelMax)])
            /\ pc' = "pv_download"
       ELSE /\ progressLog' = Append(progressLog,
                [num |-> 1, den |-> 1, text |-> "Done!", item |-> <<>>])
            /\ pc' = "returned"
    /\ NoRaise
    /\ UNCHANGED <<mode, agentVars, searchVars, results, picks, n, files,
                   writeLog, netLog, loggedIn, slugVars, guiVars>>

\* process_video, lines 99-104: the paths are derived and _download_audio
\* runs yt_dlp on video.url, before anything else is looked at.  yt_dlp
\* makes its own connections: it is given neither the page nor its cookies.
PvDownload ==
    /\ mode = "do_process"
    /\ pc = "pv_download"
    /\ netLog' = Append(netLog, NetCall("download", "yt_dlp"))
    /\ \E ok \in BOOLEAN :
          IF ok
          THEN /\ Write(File(audio_path(Video.title), "audio", Video))
               /\ pc' = "pv_check_key"
               /\ NoRaise
          ELSE /\ Raise("DownloadError")
               /\ NoWrite
    /\ UNCHANGED <<mode, agentVars, searchVars, results, picks, n, progressLog,
                   loggedIn, slugVars, guiVars>>

\* process_video, lines 107-108: "if not OPENAI_API_KEY: raise RuntimeError"
PvCheckKey ==
    /\ mode = "do_process"
    /\ pc = "pv_check_key"
    /\ IF OPENAI_API_KEY \in {"None", ""}
       THEN Raise("RuntimeError")
       ELSE pc' = "pv_transcribe" /\ NoRaise
    /\ UNCHANGED <<mode, agentVars, searchVars, batchVars, netLog, loggedIn,
                   slugVars, guiVars>>

\* faulty variant of PvTranscribe: the transcript file is written whether or
\* not the call succeeded
PvTranscribeWritesAnyway ==
    /\ mode = "do_process"
    /\ pc = "pv_transcribe"
    /\ netLog' = Append(netLog, NetCall("transcribe", "openai"))
    /\ Write(File(transcript_path(Video.title), "transcript", Video))
    /\ \E ok \in BOOLEAN :
          IF ok THEN pc' = "pv_summarise" /\ NoRaise
          ELSE Raise("TranscriptionError")
    /\ UNCHANGED <<mode, agentVars, searchVars, results, picks, n, progressLog,
                   loggedIn, slugVars, guiVars>>

\* process_video, lines 110-119: openai.Audio.transcribe on the audio file,
\* then transcript_path.write_text
PvTranscribe ==
    /\ mode = "do_process"
    /\ pc = "pv_transcribe"
    /\ netLog' = Append(netLog, NetCall("transcribe", "openai"))
    /\ \E ok \in BOOLEAN :
          IF ok
          THEN /\ Write(File(transcript_path(Video.title), "transcript", Video))
               /\ pc' = "pv_summarise"
               /\ NoRaise
          ELSE /\ Raise("TranscriptionError")
               /\ NoWrite
    /\ UNCHANGED <<mode, agentVars, searchVars, results, picks, n, progressLog,
                   loggedIn, slugVars, guiVars>>

\* process_video, lines 122-135: the prompt and openai.ChatCompletion.create
PvSummarise ==
    /\ mode = "do_process"
    /\ pc = "pv_summarise"
    /\ netLog' = Append(netLog, NetCall("summarise", "openai"))
    /\ \E ok \in BOOLEAN :
          IF ok THEN pc' = "pv_write_notes" /\ NoRaise
          ELSE Raise("SummarizationError")
    /\ UNCHANGED <<mode, agentVars, searchVars, batchVars, loggedIn, slugVars, guiVars>>

\* process_video, lines 136-138: notes_path.write_text and the return; the
\* loop of do_process goes on to the next pick
PvWriteNotes ==
    /\ mode = "do_process"
    /\ pc = "pv_write_notes"
    /\ Write(File(notes_path(Video.title), "notes", Video))
    /\ n' = n + 1
    /\ pc' = "loop"
    /\ NoRaise
    /\ UNCHANGED <<mode, agentVars, searchVars, results, picks, progressLog,
                   netLog, loggedIn, slugVars, guiVars>>

Next ==
    \/ LoginGoto
    \/ LoginSubmit
    \/ SearchGoto
    \/ SearchWait
    \/ SearchSlice
    \/ Loop
    \/ PvDownload
    \/ PvCheckKey
    \/ PvTranscribe
    \/ PvSummarise
    \/ PvWriteNotes

Spec == Init /\ [][Next]_vars

(***************************************************************************)
(* Claims about the slug and the paths (SpecSlug).                         *)
(***************************************************************************)
SlugChars == AlnumChars \cup {"_"}

\* the audio file name without its ".mp3"
Stem(p) == SubSeq(p.audio, 1, Len(p.audio) - Len(Mp3Suffix))

PathsDerived == mode = "slug" /\ pc = "pv_paths"

\* C6: for every title the slug consists of characters of [A-Za-z0-9_] only
\* and has at most 50 of them, the three paths are the slug followed by
\* .mp3, .md and .notes.md, and processing the same title again gives the
\* same three paths.
C6_SlugSafeBoundedStable ==
    PathsDerived =>
        LET slug == Stem(slugPaths) IN
        /\ slugPaths.audio = slug \o Mp3Suffix
        /\ slugPaths.transcript = slug \o MdSuffix
        /\ slugPaths.notes = slug \o NotesSuffix
        /\ \A i \in 1..Len(slug) : slug[i] \in SlugChars
        /\ Len(slug) <= SlugMax
        /\ slugRun > 1 => slugPaths = slugPrev

\* a title longer than the cut, with characters outside the class, has been
\* processed a second time
C6_Witness ==
    /\ PathsDerived
    /\ slugRun = 2
    /\ Len(slugTitle) > SlugMax
    /\ \E i \in 1..Len(slugTitle) : slugTitle[i] \notin AlnumChars

CaseReviewSlugClaimed ==
    <<"C","a","s","e","_","R","e","v","i","e","w","_","T","I","P","S">>

\* C7 as stated: the title "Case Review: TIPS!!" gives the slug
\* "Case_Review_TIPS" and the files Case_Review_TIPS.mp3, .md and .notes.md
\* (the trailing run "!!" leaves no separator).
C7_AsClaimed ==
    (PathsDerived /\ slugTitle = CaseReviewTitle) =>
        slugPaths = [audio |-> CaseReviewSlugClaimed \o Mp3Suffix,
                     transcript |-> CaseReviewSlugClaimed \o MdSuffix,
                     notes |-> CaseReviewSlugClaimed \o NotesSuffix]

\* C7, amended: the title "Case Review: TIPS!!" gives the slug
\* "Case_Review_TIPS_" and the files Case_Review_TIPS_.mp3, .md and
\* .notes.md: every run of other characters, the trailing "!!" included,
\* becomes one separator.
C7_TrailingSeparatorKept ==
    (PathsDerived /\ slugTitle = CaseReviewTitle) =>
        slugPaths = [audio |-> CaseReviewSlugClaimed \o <<"_">> \o Mp3Suffix,
                     transcript |-> CaseReviewSlugClaimed \o <<"_">> \o MdSuffix,
                     notes |-> CaseReviewSlugClaimed \o <<"_">> \o NotesSuffix]

\* the paths of "Case Review: TIPS!!" have been derived
C7_Witness == PathsDerived /\ slugTitle = CaseReviewTitle

(***************************************************************************)
(* Claims about do_search and do_process (Spec).                           *)
(***************************************************************************)
Ended == pc \in {"returned", "raised"}
SearchEnded == mode = "do_search" /\ Ended
BatchEnded == mode = "do_process" /\ Ended

\* job k of the batch (k-th pick) has been started / has failed / is over
Started(k) == k < n \/ (k = n /\ pc # "loop")
Failed(k) == k = n /\ pc = "raised"
Completed(k) == k < n \/ Failed(k)

\* what is there to see of job k once the batch is over
Outcome(k) ==
    IF k < n THEN "Done" ELSE IF Failed(k) THEN "Failed" ELSE "None"

\* C1: a failure of one job of the batch does not keep the later jobs from
\* running: when the batch is over, every job after a failed job has been
\* started.
C1_AsClaimed ==
    BatchEnded =>
        \A i \in 1..total : Failed(i) => \A j \in (i + 1)..total : Started(j)

\* C2: every catalog search and every audio download is made on a network
\* context on which playwright_login had completed before.
C2_AsClaimed ==
    \A i \in 1..Len(netLog) :
        netLog[i].op \in {"goto_search", "download"} => netLog[i].authed

Absent == {"None", ""}

\* C3: with a required configuration value absent, the operation that needs
\* it makes no network call: no navigation to the login page without email
\* or password, no download without API key.
C3_AsClaimed ==
    /\ (mode = "do_search" /\ (CIRSE_EMAIL \in Absent \/ CIRSE_PASSWORD \in Absent))
          => netLog = <<>>
    /\ (mode = "do_process" /\ OPENAI_API_KEY \in Absent)
          => netLog = <<>>

\* the search page was loaded: nothing failed on the way to the cards
PageLoaded == traceback \notin {"login_goto", "login_fill", "search_goto"}

\* the VideoResult search_videos is to build of a card (lines 73-83)
ResultOf(card, i) ==
    [title |-> i, url |-> i,
     year |-> IF card.hasYear THEN "year" ELSE "None",
     speaker |-> IF card.hasSpeaker THEN "speaker" ELSE "None"]

\* C4: with max_results = n >= 1 and k >= 1 cards on the page, search
\* returns the first min(n, k) cards in the order of the page, without error.
C4_AsClaimed ==
    (SearchEnded /\ PageLoaded /\ Len(catalog) >= 1 /\ traceback # "search_wait") =>
        /\ exception = "None"
        /\ Len(hits) = Min(top_n, Len(catalog))
        /\ \A i \in 1..Len(hits) : hits[i].url = i

\* C5: with no card on the page, search returns the empty list without
\* error (and the caller shows 'No results').
C5_AsClaimed ==
    (SearchEnded /\ PageLoaded /\ Len(catalog) = 0) =>
        /\ exception = "None"
        /\ hits = <<>>

\* C8: a card without year or speaker element still gives a record, with
\* None in that field, and the search does not fail.
C8_AsClaimed ==
    (SearchEnded /\ PageLoaded /\ traceback # "search_wait"
        /\ \E i \in 1..Min(top_n, Len(catalog)) :
              ~catalog[i].hasYear \/ ~catalog[i].hasSpeaker) =>
        /\ exception = "None"
        /\ Len(hits) = Min(top_n, Len(catalog))
        /\ \A i \in 1..Len(hits) : hits[i] = ResultOf(catalog[i], i)

\* C9: after every job that completed, by success or by failure, a progress
\* notification with the fraction k / total of completed jobs is emitted, and
\* the last notification of every batch is 1.0.
C9_AsClaimed ==
    BatchEnded =>
        /\ \A k \in 1..total : Completed(k) =>
              \E i \in 1..Len(progressLog) :
                  progressLog[i].num * total = k * progressLog[i].den
        /\ progressLog # <<>>
        /\ progressLog[Len(progressLog)].num = progressLog[Len(progressLog)].den

\* C10: the batch yields one outcome for every job, Done or Failed, in the
\* order of the jobs.
C10_AsClaimed ==
    BatchEnded => \A k \in 1..total : Outcome(k) \in {"Done", "Failed"}

(***************************************************************************)
(* Claims about the stages of a job and its artifacts (Spec).              *)
(***************************************************************************)

\* the VideoResult of job k
JobVideo(k) == results[picks[k] + 1]

\* the stage of job k, read off the position of do_process: the code keeps
\* no stage of its own
JobStage(k) ==
    IF k < n THEN "Done"
    ELSE IF k > n THEN "Pending"
    ELSE CASE pc \in {"loop", "pv_download"} -> "Pending"
           [] pc \in {"pv_check_key", "pv_transcribe"} -> "AudioAcquired"
           [] pc = "pv_summarise" -> "Transcribed"
           [] pc = "pv_write_notes" -> "Summarized"
           [] OTHER -> "Failed"

StageMoves ==
    {<<"Pending", "AudioAcquired">>, <<"AudioAcquired", "Transcribed">>,
     <<"Transcribed", "Summarized">>, <<"Summarized", "Done">>}
    \cup {<<s, "Failed">> :
            s \in {"Pending", "AudioAcquired", "Transcribed", "Summarized"}}

\* the positions in writeLog at which job k wrote a file of that kind
Writes(k, kind) ==
    {i \in 1..Len(writeLog) :
        writeLog[i].url = JobVideo(k).url /\ writeLog[i].kind = kind}

Written(k, kind) == Writes(k, kind) # {}

FailedAt(k, position) == Failed(k) /\ traceback = position

ArtifactsFollowStages ==
    mode = "do_process" =>
        \A k \in 1..total :
            \* notes only after the transcript, the transcript only after the audio
            /\ \A i \in Writes(k, "notes") :
                  \E j \in Writes(k, "transcript") : j < i
            /\ \A i \in Writes(k, "transcript") :
                  \E j \in Writes(k, "audio") : j < i
            \* a file is written only once its stage has succeeded
            /\ Written(k, "audio") =>
                  \/ JobStage(k) \in {"AudioAcquired", "Transcribed", "Summarized", "Done"}
                  \/ FailedAt(k, "pv_check_key")
                  \/ FailedAt(k, "pv_transcribe")
                  \/ FailedAt(k, "pv_summarise")
            /\ Written(k, "transcript") =>
                  \/ JobStage(k) \in {"Transcribed", "Summarized", "Done"}
                  \/ FailedAt(k, "pv_summarise")
            /\ Written(k, "notes") => JobStage(k) = "Done"
            \* a failed transcription leaves neither transcript nor notes
            /\ FailedAt(k, "pv_transcribe") =>
                  ~Written(k, "transcript") /\ ~Written(k, "notes")
            \* a failed summarisation leaves no notes, and the transcript stays
            /\ FailedAt(k, "pv_summarise") =>
                  /\ ~Written(k, "notes")
                  /\ File(transcript_path(JobVideo(k).title), "transcript",
                          JobVideo(k)) \in files

StagesMoveForward ==
    mode = "do_process" =>
        \A k \in 1..total :
            \/ JobStage(k)' = JobStage(k)
            \/ <<JobStage(k), JobStage(k)'>> \in StageMoves

\* C11: every job moves only along Pending -> AudioAcquired -> Transcribed ->
\* Summarized -> Done, or to Failed from a stage before Done; a job's notes
\* are written only after its transcript and its transcript only after its
\* audio, each only once its stage succeeded; a failed transcription leaves
\* neither transcript nor notes of the job, a failed summarisation no notes
\* while the transcript it wrote before stays in place.
C11_StagesAndArtifacts == []ArtifactsFollowStages /\ [][StagesMoveForward]_vars

\* the second job of a batch failed in the summarisation, after the first
\* job was done
C11_Witness ==
    /\ mode = "do_process"
    /\ total = 2
    /\ FailedAt(2, "pv_summarise")
    /\ Written(1, "notes")
    /\ Written(2, "transcript")

\* the titles of the picked results differ pairwise
TitlesDiffer ==
    \A j, k \in 1..total : j # k => JobVideo(j).title # JobVideo(k).title

\* C13: after a batch in which every job succeeded and whose titles differ
\* pairwise, every job's audio, transcript and notes file holds that job's
\* own content: no job wrote over another job's file.
C13_AsClaimed ==
    (mode = "do_process" /\ pc = "returned" /\ TitlesDiffer) =>
        \A k \in 1..total :
            /\ File(audio_path(JobVideo(k).title), "audio", JobVideo(k)) \in files
            /\ File(transcript_path(JobVideo(k).title), "transcript", JobVideo(k))
                  \in files
            /\ File(notes_path(JobVideo(k).title), "notes", JobVideo(k)) \in files

(***************************************************************************)
(* SpecGui: the script of cirse_app.py under Streamlit.  Every interaction *)
(* with a widget runs the script again from the top; st.button is True     *)
(* only in the run that its own click caused.  The module cirse_agent is   *)
(* imported by the first run and stays imported.                           *)
(*                                                                         *)
(* SpecLoad starts with the page after the first run.  SpecGui starts      *)
(* there too, or in a run caused by Search at line 86, do_search having    *)
(* returned a result list that is an input here (search_videos itself      *)
(* never returns, see SearchSlice).  The state of a widget that a run did  *)
(* not put on the page is either dropped after the run or kept, depending  *)
(* on the Streamlit version: both are allowed.                             *)
(***************************************************************************)
MaxClicks == 3      \* user interactions in one behaviour

\* text_input(..., value=os.getenv(name, ''))
DefaultOf(v) == IF v = "None" THEN "" ELSE v

\* os.environ.update of line 69 with the values of the three inputs
Updated == [email |-> gui.email, password |-> gui.password, key |-> gui.key]

GuiResultLists ==
    {<<>>} \cup {rs \in ResultLists :
                    \A i \in 1..Len(rs) :
                        rs[i].title = TipsBang /\ rs[i].speaker = "None"}

GuiCatalogs ==
    {c \in Catalogs : \A i \in 1..Len(c) : c[i].hasYear /\ c[i].hasSpeaker}

GuiStart ==
    /\ mode = "gui"
    /\ exception = "None"
    /\ traceback = "None"
    /\ top_n \in 1..MaxTop
    /\ catalog = <<>>
    /\ hits = <<>>
    /\ picks = <<>>
    /\ n = 1
    /\ progressLog = <<>>
    /\ files = {}
    /\ writeLog = <<>>
    /\ netLog = <<>>
    /\ loggedIn = {}
    /\ slugTitle = <<>>
    /\ slugPaths = NoPaths
    /\ slugPrev = NoPaths
    /\ slugRun = 1
    /\ clicks = 0
    /\ shown = NothingShown
    /\ OPENAI_API_KEY \in CredValues
    /\ CIRSE_EMAIL \in CredValues
    /\ CIRSE_PASSWORD \in CredValues

\* the first run is over: the agent was imported with this environment, the
\* inputs show their defaults
InitLoad ==
    /\ GuiStart
    /\ pc = "idle"
    /\ trigger = "load"
    /\ environ = [email |-> CIRSE_EMAIL, password |-> CIRSE_PASSWORD,
                  key |-> OPENAI_API_KEY]
    /\ gui = [email |-> DefaultOf(CIRSE_EMAIL),
              password |-> DefaultOf(CIRSE_PASSWORD),
              key |-> DefaultOf(OPENAI_API_KEY), query |-> ""]
    /\ results = <<>>
    /\ ticks = {}

\* a run caused by Search, at line 86: every box was filled in and
\* os.environ updated with the inputs; a checkbox may have kept a tick
InitResults ==
    /\ GuiStart
    /\ pc = "render_results"
    /\ trigger = "search"
    /\ gui = [email |-> "typed", password |-> "typed", key |-> "typed",
              query |-> "typed"]
    /\ environ = [email |-> "typed", password |-> "typed", key |-> "typed"]
    /\ results \in GuiResultLists
    /\ ticks \in SUBSET (0..(Len(results) - 1))

InitGui == InitLoad \/ InitResults

\* the widget state after a run that did not show the checkboxes
Cleanup(t) == {t, {}}

\* lines 49-64 with st.button('Search') False: the inputs and the Search
\* button are shown, the block of lines 65-117 is skipped
RerunWithoutSearch(cause, t) ==
    /\ trigger' = cause
    /\ shown' = NothingShown
    /\ ticks' \in Cleanup(t)
    /\ clicks' = clicks + 1
    /\ pc' = "idle"

Idle == mode = "gui" /\ pc = "idle" /\ clicks < MaxClicks

\* the user changes one of the text inputs
UserEdit ==
    /\ Idle
    /\ \E field \in {"email", "password", "key", "query"}, v \in {"", "typed"} :
          /\ gui[field] # v
          /\ gui' = [gui EXCEPT ![field] = v]
    /\ RerunWithoutSearch("edit", ticks)
    /\ UNCHANGED <<mode, exception, traceback, agentVars, searchVars, batchVars,
                   netLog, loggedIn, slugVars, environ>>

\* the user ticks or unticks a result checkbox that is on the page
TickBox ==
    /\ Idle
    /\ \E idx \in 0..(shown.boxes - 1) :
          IF idx \in ticks
          THEN RerunWithoutSearch("untick", ticks \ {idx})
          ELSE RerunWithoutSearch("tick", ticks \cup {idx})
    /\ UNCHANGED <<mode, exception, traceback, agentVars, searchVars, batchVars,
                   netLog, loggedIn, slugVars, environ, gui>>

\* the user clicks 'Process selected', which is on the page
ClickProcess ==
    /\ Idle
    /\ shown.process
    /\ RerunWithoutSearch("process", ticks)
    /\ UNCHANGED <<mode, exception, traceback, agentVars, searchVars, batchVars,
                   netLog, loggedIn, slugVars, environ, gui>>

\* the user clicks Search: lines 64-84 up to the call of do_search
ClickSearch ==
    /\ Idle
    /\ trigger' = "search"
    /\ clicks' = clicks + 1
    /\ exception' = "None"
    /\ traceback' = "None"
    /\ IF gui.email = "" \/ gui.password = "" \/ gui.key = "" \/ gui.query = ""
       THEN \* st.error('Please fill in every box.'); st.stop()
            /\ shown' = [NothingShown EXCEPT !.note = "fill in"]
            /\ ticks' \in Cleanup(ticks)
            /\ UNCHANGED <<mode, pc, environ, catalog>>
       ELSE /\ environ' = Updated
            /\ mode' = "do_search"
            /\ pc' = "login_goto"
            /\ catalog' \in GuiCatalogs
            /\ UNCHANGED <<shown, ticks>>
    /\ UNCHANGED <<agentVars, top_n, hits, batchVars, netLog, loggedIn,
                   slugVars, gui>>

\* the exception of do_search ends the run: Streamlit shows it
ScriptRaised ==
    /\ mode = "do_search"
    /\ pc = "raised"
    /\ trigger = "search"
    /\ mode' = "gui"
    /\ pc' = "idle"
    /\ shown' = [NothingShown EXCEPT !.note = "exception"]
    /\ ticks' \in Cleanup(ticks)
    /\ UNCHANGED <<exception, traceback, agentVars, searchVars, batchVars,
                   netLog, loggedIn, slugVars, environ, gui, trigger, clicks>>

\* lines 86-109 in a run caused by Search: 'No results', or the checkboxes,
\* picks, and 'Process selected' when picks is not empty; do_process is
\* entered when that button is True in this run
RenderResults ==
    /\ mode = "gui"
    /\ pc = "render_results"
    /\ IF results = <<>>
       THEN /\ shown' = [NothingShown EXCEPT !.note = "No results"]
            /\ ticks' \in Cleanup(ticks)
            /\ pc' = "idle"
            /\ UNCHANGED <<mode, picks>>
       ELSE LET ticked == ticks \cap (0..(Len(results) - 1)) IN
            /\ ticks' = ticked
            /\ picks' = IF ticked = {} THEN <<>> ELSE Ascending(ticked)
            /\ shown' = [boxes |-> Len(results), process |-> ticked # {},
                         note |-> ""]
            /\ IF ticked # {} /\ trigger = "process"
               THEN mode' = "do_process" /\ pc' = "loop"
               ELSE mode' = mode /\ pc' = "idle"
    /\ UNCHANGED <<exception, traceback, agentVars, searchVars, results, n,
                   progressLog, files, writeLog, netLog, loggedIn, slugVars,
                   environ, gui, trigger, clicks>>

NextGui ==
    \/ UserEdit
    \/ TickBox
    \/ ClickProcess
    \/ ClickSearch
    \/ LoginGoto
    \/ LoginSubmit
    \/ SearchGoto
    \/ SearchWait
    \/ SearchSlice
    \/ ScriptRaised
    \/ RenderResults

SpecGui == InitGui /\ [][NextGui]_vars

\* SpecLoad: the page from its first run on, with what the user can then do
NextLoad ==
    \/ UserEdit
    \/ ClickSearch
    \/ LoginGoto
    \/ LoginSubmit
    \/ SearchGoto
    \/ SearchWait
    \/ SearchSlice
    \/ ScriptRaised

SpecLoad == InitLoad /\ [][NextLoad]_vars

\* C12: the email, password and API key that the Search handler stored with
\* os.environ.update are the values the agent uses in the run of do_search
\* that follows.
C12_AsClaimed ==
    (mode = "do_search" /\ trigger = "search") =>
        /\ CIRSE_EMAIL = environ.email
        /\ CIRSE_PASSWORD = environ.password
        /\ OPENAI_API_KEY = environ.key

\* C14: after a search that showed results, ticking a checkbox leaves
\* 'Process selected' on the page for the user to click, and the run that
\* the click on it causes invokes process_video (so that a download is made).
C14_AsClaimed ==
    (mode = "gui" /\ pc = "idle") =>
        /\ trigger = "tick" => shown.process
        /\ trigger = "process" =>
              \E i \in 1..Len(netLog) : netLog[i].op = "download"

=============================================================================
